---- MODULE Spec2Model ----
(***************************************************************************)
(* Water-balance engine of Simulation.py (HOPE Rwanda stormwater sandbox). *)
(*                                                                         *)
(* The script runs top to bottom on every rerun: the sidebar reads the     *)
(* widgets (lines 45-100), then the engine computes baseline runoff, the   *)
(* four measures, the combined effective runoff and the protection score   *)
(* (lines 122-202).  Each section of the script is one action; pc is the   *)
(* position of the script.                                                 *)
(*                                                                         *)
(* Python floats are modelled as exact rationals (no rounding).  A number  *)
(* is a record [s, n, q, k] standing for  s * n / (q * 10^k)  where s is   *)
(* the sign, n and q are naturals written as sequences of base-1000 limbs  *)
(* (least significant first) and k counts decimal places.  TLC integers    *)
(* are 32 bits wide, too narrow for the 1e-9 guard of the score.           *)
(***************************************************************************)
EXTENDS Integers, Sequences, FiniteSets, TLC

(***************************************************************************)
(* Natural numbers as limb sequences.                                      *)
(***************************************************************************)
Base == 10 * 100

Min2(a, b) == IF a <= b THEN a ELSE b
Max2(a, b) == IF a >= b THEN a ELSE b

Limb(a, i) == IF i >= 1 /\ i <= Len(a) THEN a[i] ELSE 0

RECURSIVE Strip(_)
Strip(a) ==
  IF a = <<>> THEN a
  ELSE IF a[Len(a)] = 0 THEN Strip(SubSeq(a, 1, Len(a) - 1)) ELSE a

\* Propagate carries (or borrows) until every limb is in 0..Base-1.
RECURSIVE Carry(_)
Carry(d) ==
  IF \A i \in 1..Len(d) : d[i] >= 0 /\ d[i] < Base THEN Strip(d)
  ELSE Carry([i \in 1..(Len(d) + 1) |->
                (Limb(d, i) % Base) + (Limb(d, i - 1) \div Base)] \o <<>>)

One == <<1>>

MFromInt(i) == Strip(<<i % Base, (i \div Base) % Base,
                       (i \div (Base * Base)) % Base, i \div (Base * Base * Base)>>)

MAdd(a, b) == Carry([i \in 1..Max2(Len(a), Len(b)) |-> Limb(a, i) + Limb(b, i)] \o <<>>)

\* a - b for a >= b
MSub(a, b) == Carry([i \in 1..Max2(Len(a), Len(b)) |-> Limb(a, i) - Limb(b, i)] \o <<>>)

RECURSIVE Dot(_, _, _, _, _)
Dot(a, b, k, i, hi) ==
  IF i > hi THEN 0 ELSE a[i] * b[k + 1 - i] + Dot(a, b, k, i + 1, hi)

MMul(a, b) ==
  IF a = <<>> \/ b = <<>> THEN <<>>
  ELSE IF a = One THEN b
  ELSE IF b = One THEN a
  ELSE Carry([k \in 1..(Len(a) + Len(b) - 1) |->
                Dot(a, b, k, Max2(1, k + 1 - Len(b)), Min2(k, Len(a)))] \o <<>>)

\* -1, 0, 1 as a < b, a = b, a > b
MCmp(a, b) ==
  IF Len(a) # Len(b) THEN (IF Len(a) < Len(b) THEN -1 ELSE 1)
  ELSE LET D == {i \in 1..Len(a) : a[i] # b[i]}
       IN IF D = {} THEN 0
          ELSE LET m == CHOOSE i \in D : \A j \in D : j <= i
               IN IF a[m] < b[m] THEN -1 ELSE 1

MPow10(j) ==
  [i \in 1..((j \div 3) + 1) |->
     IF i <= j \div 3 THEN 0
     ELSE IF j % 3 = 0 THEN 1 ELSE IF j % 3 = 1 THEN 10 ELSE 100] \o <<>>

MDiv10(a) == Strip([i \in 1..Len(a) |-> (a[i] \div 10) + (Limb(a, i + 1) % 10) * 100] \o <<>>)

RECURSIVE StripTens(_, _)
StripTens(n, k) ==
  IF k > 0 /\ n # <<>> /\ n[1] % 10 = 0 THEN StripTens(MDiv10(n), k - 1)
  ELSE <<n, k>>

\* signed sum of two magnitudes: <<sign, magnitude>>
SAdd(sa, a, sb, b) ==
  IF sa = 0 THEN <<sb, b>>
  ELSE IF sb = 0 THEN <<sa, a>>
  ELSE IF sa = sb THEN <<sa, MAdd(a, b)>>
  ELSE LET c == MCmp(a, b)
       IN IF c = 0 THEN <<0, <<>>>>
          ELSE IF c > 0 THEN <<sa, MSub(a, b)>> ELSE <<sb, MSub(b, a)>>

(***************************************************************************)
(* Exact rationals  s * n / (q * 10^k).                                    *)
(***************************************************************************)
R0 == [s |-> 0, n |-> <<>>, q |-> One, k |-> 0]

Mk(s, n, q, k) ==
  IF n = <<>> \/ s = 0 THEN R0
  ELSE LET t == StripTens(n, k) IN [s |-> s, n |-> t[1], q |-> q, k |-> t[2]]

Sgn(i) == IF i > 0 THEN 1 ELSE IF i < 0 THEN -1 ELSE 0
Abs(i) == IF i < 0 THEN -i ELSE i

\* the integer i, and the decimal i / 10^k
RInt(i) == Mk(Sgn(i), MFromInt(Abs(i)), One, 0)
RDec(i, k) == Mk(Sgn(i), MFromInt(Abs(i)), One, k)

RNeg(x) == [x EXCEPT !.s = -x.s]

\* numerator of x over the common denominator of x and y
Num(x, y) ==
  MMul(MMul(x.n, IF x.q = y.q THEN One ELSE y.q), MPow10(Max2(x.k, y.k) - x.k))

RAdd(x, y) ==
  LET r == SAdd(x.s, Num(x, y), y.s, Num(y, x))
  IN Mk(r[1], r[2], IF x.q = y.q THEN x.q ELSE MMul(x.q, y.q), Max2(x.k, y.k))

RSub(x, y) == RAdd(x, RNeg(y))

RMul(x, y) == Mk(x.s * y.s, MMul(x.n, y.n), MMul(x.q, y.q), x.k + y.k)

\* x / y for y # 0
RDiv(x, y) ==
  IF x.q = y.q THEN Mk(x.s * y.s, MMul(x.n, MPow10(y.k)), y.n, x.k)
  ELSE Mk(x.s * y.s, MMul(MMul(x.n, y.q), MPow10(y.k)), MMul(x.q, y.n), x.k)

RSign(x) == x.s
RCmp(x, y) == RSub(x, y).s
REq(x, y) == RCmp(x, y) = 0
RLeq(x, y) == RCmp(x, y) <= 0
RLt(x, y) == RCmp(x, y) < 0
RMin(x, y) == IF RLeq(x, y) THEN x ELSE y
RMax(x, y) == IF RLeq(y, x) THEN x ELSE y

(***************************************************************************)
(* State: the script's variables and its position.                         *)
(***************************************************************************)
VARIABLES
  pc,
  \* sidebar inputs (lines 45-100)
  P_mm, catchment_area_m2, roof_area_m2, base_CN, slope_note, slope_factor,
  harv_on, storage_per_unit_L, n_units, first_flush_mm,
  vetiver_on, vetiver_CN_delta, vetiver_infiltration_boost,
  hug_on, n_beds, bed_length_m, bed_width_m, bed_core_depth_m, core_porosity,
  border_loss_factor, hug_intercept_share,
  pp_on, pp_CN_delta, pp_infiltration_share, pp_fraction_of_catch,
  \* engine results (lines 122-202)
  CN_effective, Q_mm, baseline_runoff_m3,
  harvest_P_effective_mm, roof_yield_m3, total_rooftop_storage_m3,
  captured_roof_m3, roof_overflow_m3,
  hugel_core_vol_m3, hugel_storage_m3, hugel_intercepted_m3, hugel_overflow_m3,
  pp_incident_rain_m3, pp_direct_infiltration_m3,
  remaining_runoff_after_hugel, vetiver_extra_infiltration_m3,
  effective_runoff_m3, reduction_ratio, score

siteVars == <<P_mm, catchment_area_m2, roof_area_m2, base_CN, slope_note, slope_factor>>
harvIn == <<harv_on, storage_per_unit_L, n_units, first_flush_mm>>
vetIn == <<vetiver_on, vetiver_CN_delta, vetiver_infiltration_boost>>
hugIn == <<hug_on, n_beds, bed_length_m, bed_width_m, bed_core_depth_m, core_porosity,
           border_loss_factor, hug_intercept_share>>
ppIn == <<pp_on, pp_CN_delta, pp_infiltration_share, pp_fraction_of_catch>>
inputs == <<siteVars, harvIn, vetIn, hugIn, ppIn>>

baseOut == <<CN_effective, Q_mm, baseline_runoff_m3>>
harvOut == <<harvest_P_effective_mm, roof_yield_m3, total_rooftop_storage_m3,
             captured_roof_m3, roof_overflow_m3>>
hugOut == <<hugel_core_vol_m3, hugel_storage_m3, hugel_intercepted_m3, hugel_overflow_m3>>
ppOut == <<pp_incident_rain_m3, pp_direct_infiltration_m3>>
vetOut == <<remaining_runoff_after_hugel, vetiver_extra_infiltration_m3>>
scoreOut == <<reduction_ratio, score>>
results == <<baseOut, harvOut, hugOut, ppOut, vetOut, effective_runoff_m3, scoreOut>>

vars == <<pc, inputs, results>>

\* a name the script has not assigned yet
Unbound == "unbound"

(***************************************************************************)
(* Helpers (lines 105-117).                                                *)
(***************************************************************************)
\* 25400.0 / CN, or the denominator of line 111, is zero: ZeroDivisionError
scs_raises(P, CN) ==
  \/ RSign(CN) = 0
  \/ LET S == RSub(RDiv(RInt(25400), CN), RInt(254))
         Ia == RMul(RDec(2, 1), S)
     IN ~RLeq(P, Ia) /\ RSign(RAdd(P, RMul(RDec(8, 1), S))) = 0

\* without the P <= Ia branch of lines 109-110
scs_runoff_depth_mm_no_abstraction_branch(P, CN) ==
  LET S == RSub(RDiv(RInt(25400), CN), RInt(254))
      Ia == RMul(RDec(2, 1), S)
  IN RDiv(RMul(RSub(P, Ia), RSub(P, Ia)), RAdd(P, RMul(RDec(8, 1), S)))

scs_runoff_depth_mm(P, CN) ==
  LET S == RSub(RDiv(RInt(25400), CN), RInt(254))
      Ia == RMul(RDec(2, 1), S)
  IN IF RLeq(P, Ia) THEN R0
     ELSE RDiv(RMul(RSub(P, Ia), RSub(P, Ia)), RAdd(P, RMul(RDec(8, 1), S)))

liters(m3) == RMul(m3, RInt(1000))

\* without the mm -> m scaling
m3_from_mm_over_area_unscaled(mm, area_m2) == RMul(mm, area_m2)

m3_from_mm_over_area(mm, area_m2) == RMul(RDiv(mm, RInt(1000)), area_m2)

(***************************************************************************)
(* Sidebar (lines 45-100): the widgets' values; a disabled measure's       *)
(* parameters are set to zero by the else branches.                        *)
(***************************************************************************)
SlopeFactor(note) ==
  IF note = "Low" THEN RDec(95, 2) ELSE IF note = "Moderate" THEN RInt(1) ELSE RDec(105, 2)

SiteInputs(D) ==
  /\ P_mm' \in D.P
  /\ catchment_area_m2' \in {RInt(a) : a \in D.area}
  /\ roof_area_m2' \in {RInt(a) : a \in D.roof}
  /\ base_CN' \in D.CN
  /\ slope_note' \in {"Low", "Moderate", "Steep"}
  /\ slope_factor' = SlopeFactor(slope_note')

HarvestingInputs(D) ==
  /\ harv_on' \in BOOLEAN
  /\ IF harv_on'
     THEN /\ storage_per_unit_L' \in {RInt(l) : l \in D.unitL}
          /\ n_units' \in D.units
          /\ first_flush_mm' \in D.firstFlush
     ELSE /\ storage_per_unit_L' = R0
          /\ n_units' = 0
          /\ first_flush_mm' = 0

VetiverInputs(D) ==
  /\ vetiver_on' \in BOOLEAN
  /\ IF vetiver_on'
     THEN \E o \in D.vetiver :
            /\ vetiver_CN_delta' = o.delta
            /\ vetiver_infiltration_boost' = RDiv(RInt(o.boostPct), RInt(100))
     ELSE /\ vetiver_CN_delta' = 0
          /\ vetiver_infiltration_boost' = R0

HugelInputs(D) ==
  /\ hug_on' \in BOOLEAN
  /\ IF hug_on'
     THEN /\ n_beds' \in D.beds
          /\ bed_length_m' = RDec(60, 1)
          /\ bed_width_m' = RDec(12, 1)
          /\ bed_core_depth_m' = RDec(6, 1)
          /\ core_porosity' = RDec(50, 2)
          /\ border_loss_factor' = RDec(15, 2)
          /\ hug_intercept_share' \in {RDiv(RInt(p), RInt(100)) : p \in D.hugSharePct}
     ELSE /\ n_beds' = 0
          /\ bed_length_m' = R0
          /\ bed_width_m' = R0
          /\ bed_core_depth_m' = R0
          /\ core_porosity' = R0
          /\ border_loss_factor' = R0
          /\ hug_intercept_share' = R0

PermeableInputs(D) ==
  /\ pp_on' \in BOOLEAN
  /\ IF pp_on'
     THEN \E o \in D.pp :
            /\ pp_CN_delta' = o.delta
            /\ pp_infiltration_share' = RDiv(RInt(o.sharePct), RInt(100))
            /\ pp_fraction_of_catch' = RDec(o.fractionPct, 2)
     ELSE /\ pp_CN_delta' = 0
          /\ pp_infiltration_share' = R0
          /\ pp_fraction_of_catch' = R0

ReadInputs(D) ==
  /\ pc = "sidebar"
  /\ SiteInputs(D)
  /\ HarvestingInputs(D)
  /\ VetiverInputs(D)
  /\ HugelInputs(D)
  /\ PermeableInputs(D)
  /\ pc' = "baseline"
  /\ UNCHANGED results

\* Values the widgets accept (sliders and number inputs of lines 45-98).
MaxUnits == 10
MaxBeds == 20

WidgetValues ==
  [P |-> {20, 80, 200}, area |-> {3000}, roof |-> {400}, CN |-> {70, 85},
   unitL |-> {1000}, units |-> {0, MaxUnits}, firstFlush |-> {2},
   vetiver |-> {[delta |-> 4, boostPct |-> 10], [delta |-> 10, boostPct |-> 30]},
   beds |-> {0, MaxBeds}, hugSharePct |-> {30, 80},
   pp |-> {[delta |-> 8, sharePct |-> 40, fractionPct |-> 25],
           [delta |-> 20, sharePct |-> 90, fractionPct |-> 100]}]

Sidebar == ReadInputs(WidgetValues)

(***************************************************************************)
(* 1) Baseline runoff (lines 122-132).                                     *)
(***************************************************************************)
Eval_CN_effective(base, v_on, v_delta, p_on, p_fraction, p_delta, slope) ==
  LET cn0 == RInt(base)
      cn1 == IF v_on THEN RMax(RInt(30), RSub(cn0, RInt(v_delta))) ELSE cn0
      cn2 == IF p_on
             THEN RAdd(RMul(RSub(RInt(1), p_fraction), cn1),
                       RMul(p_fraction, RMax(RInt(30), RSub(cn1, RInt(p_delta)))))
             ELSE cn1
  IN RMul(cn2, slope)

Baseline ==
  /\ pc = "baseline"
  /\ LET cn == Eval_CN_effective(base_CN, vetiver_on, vetiver_CN_delta, pp_on,
                                 pp_fraction_of_catch, pp_CN_delta, slope_factor)
     IN IF scs_raises(RInt(P_mm), cn)
        THEN pc' = "error_baseline" /\ UNCHANGED baseOut
        ELSE /\ CN_effective' = cn
             /\ Q_mm' = scs_runoff_depth_mm(RInt(P_mm), cn)
             /\ baseline_runoff_m3' = m3_from_mm_over_area(Q_mm', catchment_area_m2)
             /\ pc' = "harvest"
  /\ UNCHANGED <<inputs, harvOut, hugOut, ppOut, vetOut, effective_runoff_m3, scoreOut>>

(***************************************************************************)
(* 2) Rainwater harvesting (lines 137-141).                                *)
(***************************************************************************)
\* without the floor at zero
Eval_harvest_P_effective_mm_unfloored(on, P, first_flush) ==
  IF on THEN RInt(P - first_flush) ELSE R0

\* without the toggle
Eval_harvest_P_effective_mm_ignores_toggle(on, P, first_flush) ==
  RMax(R0, RInt(P - first_flush))

Eval_harvest_P_effective_mm(on, P, first_flush) ==
  IF on THEN RMax(R0, RInt(P - first_flush)) ELSE R0

\* without the cap at the tanks' capacity
Eval_captured_roof_m3_uncapped(on, yield, storage) == IF on THEN yield ELSE R0

Eval_captured_roof_m3(on, yield, storage) == IF on THEN RMin(yield, storage) ELSE R0

Eval_roof_overflow_m3(yield, captured) == RMax(R0, RSub(yield, captured))

Harvesting ==
  /\ pc = "harvest"
  /\ harvest_P_effective_mm' = Eval_harvest_P_effective_mm(harv_on, P_mm, first_flush_mm)
  /\ roof_yield_m3' = m3_from_mm_over_area(harvest_P_effective_mm', roof_area_m2)
  /\ total_rooftop_storage_m3' =
       RDiv(liters(RMul(storage_per_unit_L, RInt(n_units))), RInt(1000))
  /\ captured_roof_m3' =
       Eval_captured_roof_m3(harv_on, roof_yield_m3', total_rooftop_storage_m3')
  /\ roof_overflow_m3' = Eval_roof_overflow_m3(roof_yield_m3', captured_roof_m3')
  /\ pc' = "hugel"
  /\ UNCHANGED <<inputs, baseOut, hugOut, ppOut, vetOut, effective_runoff_m3, scoreOut>>

(***************************************************************************)
(* 3) Huegelkultur storage and interception (lines 146-150).               *)
(***************************************************************************)
Eval_hugel_storage_m3(core_vol, porosity, border_loss) ==
  RMul(RMul(core_vol, porosity), RSub(RInt(1), border_loss))

\* the beds always fill, whatever runs off
Eval_hugel_intercepted_m3_ignores_runoff(on, baseline, share, storage) ==
  IF on THEN storage ELSE R0

Eval_hugel_intercepted_m3(on, baseline, share, storage) ==
  IF on THEN RMin(RMul(baseline, share), storage) ELSE R0

Eval_hugel_overflow_m3(baseline, share, intercepted) ==
  RMax(R0, RSub(RMul(baseline, share), intercepted))

Hugel ==
  /\ pc = "hugel"
  /\ hugel_core_vol_m3' =
       RMul(RMul(RMul(RInt(n_beds), bed_length_m), bed_width_m), bed_core_depth_m)
  /\ hugel_storage_m3' =
       Eval_hugel_storage_m3(hugel_core_vol_m3', core_porosity, border_loss_factor)
  /\ hugel_intercepted_m3' =
       Eval_hugel_intercepted_m3(hug_on, baseline_runoff_m3, hug_intercept_share,
                                 hugel_storage_m3')
  /\ hugel_overflow_m3' =
       Eval_hugel_overflow_m3(baseline_runoff_m3, hug_intercept_share,
                              hugel_intercepted_m3')
  /\ pc' = "pp"
  /\ UNCHANGED <<inputs, baseOut, harvOut, ppOut, vetOut, effective_runoff_m3, scoreOut>>

(***************************************************************************)
(* 4) Permeable pavement direct infiltration (lines 156-157).              *)
(***************************************************************************)
Eval_pp_incident_rain_m3(on, P, area, fraction) ==
  IF on THEN m3_from_mm_over_area(RInt(P), RMul(area, fraction)) ELSE R0

Eval_pp_direct_infiltration_m3(on, incident, share) ==
  IF on THEN RMul(incident, share) ELSE R0

Permeable ==
  /\ pc = "pp"
  /\ pp_incident_rain_m3' =
       Eval_pp_incident_rain_m3(pp_on, P_mm, catchment_area_m2, pp_fraction_of_catch)
  /\ pp_direct_infiltration_m3' =
       Eval_pp_direct_infiltration_m3(pp_on, pp_incident_rain_m3', pp_infiltration_share)
  /\ pc' = "vetiver"
  /\ UNCHANGED <<inputs, baseOut, harvOut, hugOut, vetOut, effective_runoff_m3, scoreOut>>

(***************************************************************************)
(* 5) Vetiver additional infiltration (lines 163-164).                     *)
(***************************************************************************)
Eval_remaining_runoff_after_hugel(baseline, intercepted) ==
  RMax(R0, RSub(baseline, intercepted))

Eval_vetiver_extra_infiltration_m3(on, remaining, boost) ==
  IF on THEN RMul(remaining, boost) ELSE R0

Vetiver ==
  /\ pc = "vetiver"
  /\ remaining_runoff_after_hugel' =
       Eval_remaining_runoff_after_hugel(baseline_runoff_m3, hugel_intercepted_m3)
  /\ vetiver_extra_infiltration_m3' =
       Eval_vetiver_extra_infiltration_m3(vetiver_on, remaining_runoff_after_hugel',
                                          vetiver_infiltration_boost)
  /\ pc' = "combine"
  /\ UNCHANGED <<inputs, baseOut, harvOut, hugOut, ppOut, effective_runoff_m3, scoreOut>>

(***************************************************************************)
(* 6) Combine flows (lines 178-186).                                       *)
(***************************************************************************)
\* rooftop overflow added inside the second floor
Eval_effective_runoff_m3_overflow_inside_floor(baseline, intercepted, vetiver_extra, hugel_overflow, pp_direct, roof_overflow) ==
  LET r1 == RAdd(RMax(R0, RSub(RSub(baseline, intercepted), vetiver_extra)),
                 hugel_overflow)
  IN RMax(R0, RAdd(RSub(r1, pp_direct), roof_overflow))

Eval_effective_runoff_m3(baseline, intercepted, vetiver_extra, hugel_overflow, pp_direct, roof_overflow) ==
  LET r1 == RAdd(RMax(R0, RSub(RSub(baseline, intercepted), vetiver_extra)),
                 hugel_overflow)
      r2 == RMax(R0, RSub(r1, pp_direct))
  IN RAdd(r2, roof_overflow)

Combine ==
  /\ pc = "combine"
  /\ effective_runoff_m3' =
       Eval_effective_runoff_m3(baseline_runoff_m3, hugel_intercepted_m3,
                                vetiver_extra_infiltration_m3, hugel_overflow_m3,
                                pp_direct_infiltration_m3, roof_overflow_m3)
  /\ pc' = "score"
  /\ UNCHANGED <<inputs, baseOut, harvOut, hugOut, ppOut, vetOut, scoreOut>>

(***************************************************************************)
(* Road protection score (lines 196-202).                                  *)
(***************************************************************************)
Epsilon == RDec(1, 9)

\* the denominators of lines 196 and 200
\* without the 1e-9 guard
reduction_ratio_denominator_no_guard(baseline) == baseline

reduction_ratio_denominator(baseline) == RAdd(baseline, Epsilon)
hugel_utilisation_denominator(storage) == RAdd(storage, Epsilon)

\* a denominator of line 196 or line 200 is zero: ZeroDivisionError
score_raises(baseline, storage) ==
  \/ RSign(reduction_ratio_denominator(baseline)) = 0
  \/ RSign(hugel_utilisation_denominator(storage)) = 0

Eval_reduction_ratio(effective, baseline) ==
  RSub(RInt(1), RDiv(effective, reduction_ratio_denominator(baseline)))

\* the four weighted terms of lines 197-200
ScoreTermReduction(ratio) == RMul(RInt(40), RMax(R0, ratio))
ScoreTermVetiver(v_on) == RMul(RInt(20), IF v_on THEN RInt(1) ELSE R0)
ScoreTermPermeable(p_fraction) == RMul(RInt(20), p_fraction)
ScoreTermHugel(h_on, intercepted, storage) ==
  RMul(RInt(20),
       RMin(RInt(1),
            IF h_on THEN RDiv(intercepted, hugel_utilisation_denominator(storage))
            ELSE R0))

\* numpy.clip(x, lo, hi) = minimum(maximum(x, lo), hi)
Clip(x, lo, hi) == RMin(RMax(x, lo), hi)

\* without the floor on the ratio and without the final clamp
Eval_score_unclamped(ratio, v_on, p_fraction, h_on, intercepted, storage) ==
  RAdd(RAdd(RAdd(RMul(RInt(40), ratio), ScoreTermVetiver(v_on)),
            ScoreTermPermeable(p_fraction)),
       ScoreTermHugel(h_on, intercepted, storage))

Eval_score(ratio, v_on, p_fraction, h_on, intercepted, storage) ==
  Clip(RAdd(RAdd(RAdd(ScoreTermReduction(ratio), ScoreTermVetiver(v_on)),
                 ScoreTermPermeable(p_fraction)),
            ScoreTermHugel(h_on, intercepted, storage)),
       R0, RInt(100))

Score ==
  /\ pc = "score"
  /\ IF score_raises(baseline_runoff_m3, hugel_storage_m3)
     THEN pc' = "error_score" /\ UNCHANGED scoreOut
     ELSE /\ reduction_ratio' = Eval_reduction_ratio(effective_runoff_m3, baseline_runoff_m3)
          /\ score' = Eval_score(reduction_ratio', vetiver_on, pp_fraction_of_catch, hug_on,
                                 hugel_intercepted_m3, hugel_storage_m3)
          /\ pc' = "done"
  /\ UNCHANGED <<inputs, baseOut, harvOut, hugOut, ppOut, vetOut, effective_runoff_m3>>

(***************************************************************************)
(* A widget change reruns the script from the top with a fresh namespace.  *)
(***************************************************************************)
Rerun ==
  /\ pc \in {"done", "error_baseline", "error_score"}
  /\ pc' = "sidebar"
  /\ P_mm' = Unbound /\ catchment_area_m2' = Unbound /\ roof_area_m2' = Unbound
  /\ base_CN' = Unbound /\ slope_note' = Unbound /\ slope_factor' = Unbound
  /\ harv_on' = Unbound /\ storage_per_unit_L' = Unbound /\ n_units' = Unbound
  /\ first_flush_mm' = Unbound
  /\ vetiver_on' = Unbound /\ vetiver_CN_delta' = Unbound
  /\ vetiver_infiltration_boost' = Unbound
  /\ hug_on' = Unbound /\ n_beds' = Unbound /\ bed_length_m' = Unbound
  /\ bed_width_m' = Unbound /\ bed_core_depth_m' = Unbound /\ core_porosity' = Unbound
  /\ border_loss_factor' = Unbound /\ hug_intercept_share' = Unbound
  /\ pp_on' = Unbound /\ pp_CN_delta' = Unbound /\ pp_infiltration_share' = Unbound
  /\ pp_fraction_of_catch' = Unbound
  /\ CN_effective' = Unbound /\ Q_mm' = Unbound /\ baseline_runoff_m3' = Unbound
  /\ harvest_P_effective_mm' = Unbound /\ roof_yield_m3' = Unbound
  /\ total_rooftop_storage_m3' = Unbound /\ captured_roof_m3' = Unbound
  /\ roof_overflow_m3' = Unbound
  /\ hugel_core_vol_m3' = Unbound /\ hugel_storage_m3' = Unbound
  /\ hugel_intercepted_m3' = Unbound /\ hugel_overflow_m3' = Unbound
  /\ pp_incident_rain_m3' = Unbound /\ pp_direct_infiltration_m3' = Unbound
  /\ remaining_runoff_after_hugel' = Unbound /\ vetiver_extra_infiltration_m3' = Unbound
  /\ effective_runoff_m3' = Unbound /\ reduction_ratio' = Unbound /\ score' = Unbound

Init ==
  /\ pc = "sidebar"
  /\ P_mm = Unbound /\ catchment_area_m2 = Unbound /\ roof_area_m2 = Unbound
  /\ base_CN = Unbound /\ slope_note = Unbound /\ slope_factor = Unbound
  /\ harv_on = Unbound /\ storage_per_unit_L = Unbound /\ n_units = Unbound
  /\ first_flush_mm = Unbound
  /\ vetiver_on = Unbound /\ vetiver_CN_delta = Unbound
  /\ vetiver_infiltration_boost = Unbound
  /\ hug_on = Unbound /\ n_beds = Unbound /\ bed_length_m = Unbound
  /\ bed_width_m = Unbound /\ bed_core_depth_m = Unbound /\ core_porosity = Unbound
  /\ border_loss_factor = Unbound /\ hug_intercept_share = Unbound
  /\ pp_on = Unbound /\ pp_CN_delta = Unbound /\ pp_infiltration_share = Unbound
  /\ pp_fraction_of_catch = Unbound
  /\ CN_effective = Unbound /\ Q_mm = Unbound /\ baseline_runoff_m3 = Unbound
  /\ harvest_P_effective_mm = Unbound /\ roof_yield_m3 = Unbound
  /\ total_rooftop_storage_m3 = Unbound /\ captured_roof_m3 = Unbound
  /\ roof_overflow_m3 = Unbound
  /\ hugel_core_vol_m3 = Unbound /\ hugel_storage_m3 = Unbound
  /\ hugel_intercepted_m3 = Unbound /\ hugel_overflow_m3 = Unbound
  /\ pp_incident_rain_m3 = Unbound /\ pp_direct_infiltration_m3 = Unbound
  /\ remaining_runoff_after_hugel = Unbound /\ vetiver_extra_infiltration_m3 = Unbound
  /\ effective_runoff_m3 = Unbound /\ reduction_ratio = Unbound /\ score = Unbound

\* Values of the data model: P > 0, CN0 in [30, 100), shares in [0, 1].
DataModelValues ==
  [P |-> {1, 80}, area |-> {3000}, roof |-> {400}, CN |-> {30, 85, 96},
   unitL |-> {1000}, units |-> {0, MaxUnits}, firstFlush |-> {2},
   vetiver |-> {[delta |-> 4, boostPct |-> 10]},
   beds |-> {0, MaxBeds}, hugSharePct |-> {100},
   pp |-> {[delta |-> 8, sharePct |-> 40, fractionPct |-> 25],
           [delta |-> 20, sharePct |-> 100, fractionPct |-> 100]}]

Evaluate == ReadInputs(DataModelValues)

Engine == Baseline \/ Harvesting \/ Hugel \/ Permeable \/ Vetiver \/ Combine \/ Score

Next == Sidebar \/ Engine \/ Rerun

Spec == Init /\ [][Next]_vars

\* evaluate(SiteConfig, MeasureConfig[4]) over the data model's inputs
NextDM == Evaluate \/ Engine \/ Rerun

SpecDM == Init /\ [][NextDM]_vars

(***************************************************************************)
(* Properties.                                                             *)
(***************************************************************************)
Done == pc = "done"
IsZero(x) == RSign(x) = 0
NonNeg(x) == RSign(x) >= 0
Positive(x) == RSign(x) > 0
Between(lo, x, hi) == RLeq(lo, x) /\ RLeq(x, hi)

AllMeasuresOn == harv_on /\ vetiver_on /\ hug_on /\ pp_on
AllMeasuresOff == ~harv_on /\ ~vetiver_on /\ ~hug_on /\ ~pp_on

AllVolumesNonNeg ==
  /\ NonNeg(baseline_runoff_m3)
  /\ NonNeg(roof_yield_m3) /\ NonNeg(captured_roof_m3) /\ NonNeg(roof_overflow_m3)
  /\ NonNeg(hugel_storage_m3) /\ NonNeg(hugel_intercepted_m3) /\ NonNeg(hugel_overflow_m3)
  /\ NonNeg(pp_direct_infiltration_m3)
  /\ NonNeg(vetiver_extra_infiltration_m3)
  /\ NonNeg(effective_runoff_m3)

C2_RatioOneWhenBaselineZero ==
  (Done /\ IsZero(baseline_runoff_m3)) => REq(reduction_ratio, RInt(1))

\* C2 (amended): the score never divides by zero, and whenever baseline runoff
\* is zero the reduction ratio is 1 - roofOverflow/epsilon: 1.0 exactly when the
\* rooftop overflow is zero, below zero when the tanks overflow.
C2_RatioWhenBaselineZero ==
  /\ pc # "error_score"
  /\ (Done /\ IsZero(baseline_runoff_m3)) =>
       /\ REq(reduction_ratio, RSub(RInt(1), RDiv(roof_overflow_m3, Epsilon)))
       /\ IsZero(roof_overflow_m3) => REq(reduction_ratio, RInt(1))
       /\ Positive(roof_overflow_m3) => RLt(reduction_ratio, R0)

C2_Witness ==
  /\ Done /\ IsZero(baseline_runoff_m3)
  /\ harv_on /\ Positive(captured_roof_m3) /\ IsZero(roof_overflow_m3) /\ pp_on
  /\ REq(reduction_ratio, RInt(1))

\* Ia = 0.2 * (25400 / CN_effective - 254)
InitialAbstraction == RMul(RDec(2, 1), RSub(RDiv(RInt(25400), CN_effective), RInt(254)))

StormWithinAbstraction == Done /\ RLeq(RInt(P_mm), InitialAbstraction)

\* C3 (as stated): when P <= Ia, baseline runoff, mound-bed intercepted volume,
\* pavement direct infiltration and hedgerow extra infiltration are all zero.
C3_AllDownstreamZero ==
  StormWithinAbstraction =>
    /\ IsZero(baseline_runoff_m3)
    /\ IsZero(hugel_intercepted_m3)
    /\ IsZero(pp_direct_infiltration_m3)
    /\ IsZero(vetiver_extra_infiltration_m3)

\* C3 (amended): when P <= Ia, baseline runoff, mound-bed intercepted volume,
\* mound-bed overflow and hedgerow extra infiltration are zero; pavement direct
\* infiltration does not depend on runoff and stays P/1000 * area * fraction * share.
C3_RunoffDerivedVolumesZero ==
  StormWithinAbstraction =>
    /\ IsZero(baseline_runoff_m3)
    /\ IsZero(hugel_intercepted_m3)
    /\ IsZero(hugel_overflow_m3)
    /\ IsZero(vetiver_extra_infiltration_m3)
    /\ REq(pp_direct_infiltration_m3,
           RMul(RMul(RMul(RDiv(RInt(P_mm), RInt(1000)), catchment_area_m2),
                     pp_fraction_of_catch), pp_infiltration_share))

C3_Witness ==
  /\ StormWithinAbstraction /\ AllMeasuresOn /\ n_beds = MaxBeds
  /\ IsZero(hugel_intercepted_m3) /\ Positive(pp_direct_infiltration_m3)

ReferenceScenario ==
  /\ Done /\ P_mm = 80 /\ REq(catchment_area_m2, RInt(3000)) /\ base_CN = 85
  /\ slope_note = "Moderate" /\ AllMeasuresOff

\* C4 (as stated): P = 80, area = 3000, CN0 = 85, Moderate, no measures gives a
\* runoff depth of about 44.15 mm and a baseline runoff within 132.45 +/- 0.1 m3.
C4_ReferenceRunoff13245 ==
  ReferenceScenario =>
    /\ Between(RDec(4410, 2), Q_mm, RDec(4420, 2))
    /\ Between(RDec(13235, 2), baseline_runoff_m3, RDec(13255, 2))

\* C4 (amended): the same scenario gives a runoff depth of about 43.55 mm and a
\* baseline runoff within 130.66 +/- 0.1 m3.
C4_ReferenceRunoff13066 ==
  ReferenceScenario =>
    /\ Between(RDec(4350, 2), Q_mm, RDec(4360, 2))
    /\ Between(RDec(13056, 2), baseline_runoff_m3, RDec(13076, 2))

C4_Witness == ReferenceScenario /\ REq(CN_effective, RInt(85)) /\ Positive(Q_mm)

\* C5: a disabled measure contributes volumes of exactly 0 and a score term of 0;
\* with all four disabled the score is the clamped runoff-reduction term alone.
C5_DisabledMeasureContributesNothing ==
  Done =>
    /\ ~harv_on =>
         IsZero(roof_yield_m3) /\ IsZero(captured_roof_m3) /\ IsZero(roof_overflow_m3)
    /\ ~hug_on =>
         /\ IsZero(hugel_storage_m3) /\ IsZero(hugel_intercepted_m3)
         /\ IsZero(hugel_overflow_m3)
         /\ IsZero(ScoreTermHugel(hug_on, hugel_intercepted_m3, hugel_storage_m3))
    /\ ~pp_on =>
         /\ IsZero(pp_direct_infiltration_m3)
         /\ IsZero(ScoreTermPermeable(pp_fraction_of_catch))
    /\ ~vetiver_on =>
         /\ IsZero(vetiver_extra_infiltration_m3)
         /\ IsZero(ScoreTermVetiver(vetiver_on))
    /\ AllMeasuresOff =>
         REq(score, Clip(ScoreTermReduction(reduction_ratio), R0, RInt(100)))

C5_Witness ==
  /\ Done /\ ~harv_on /\ ~hug_on /\ vetiver_on /\ pp_on /\ P_mm = 80
  /\ Positive(baseline_runoff_m3) /\ IsZero(roof_yield_m3) /\ IsZero(hugel_overflow_m3)

\* curve numbers in (0, 100] and storm depths >= 0 the computed depth is compared with
CNProbe == {RInt(1), RInt(30), RInt(60), RDec(665, 1), RInt(85), RDec(9975, 2), RInt(100)}
PProbe == {RInt(0), RInt(10), RInt(20), RInt(50), RInt(80), RInt(200)}

BaselineWithoutVetiver ==
  m3_from_mm_over_area(
    scs_runoff_depth_mm(RInt(P_mm),
                        Eval_CN_effective(base_CN, FALSE, 0, pp_on, pp_fraction_of_catch,
                                          pp_CN_delta, slope_factor)),
    catchment_area_m2)

\* C6: the runoff depth is non-decreasing in CN over (0, 100] and in P over P >= 0,
\* and enabling the hedgerow never raises baseline runoff.
C6_RunoffDepthMonotone ==
  (pc = "harvest" /\ Positive(CN_effective) /\ RLeq(CN_effective, RInt(100))) =>
    /\ \A c \in CNProbe :
         /\ RLeq(c, CN_effective) => RLeq(scs_runoff_depth_mm(RInt(P_mm), c), Q_mm)
         /\ RLeq(CN_effective, c) => RLeq(Q_mm, scs_runoff_depth_mm(RInt(P_mm), c))
    /\ \A p \in PProbe :
         /\ RLeq(p, RInt(P_mm)) => RLeq(scs_runoff_depth_mm(p, CN_effective), Q_mm)
         /\ RLeq(RInt(P_mm), p) => RLeq(Q_mm, scs_runoff_depth_mm(p, CN_effective))
    /\ vetiver_on => RLeq(baseline_runoff_m3, BaselineWithoutVetiver)

C6_Witness ==
  /\ pc = "harvest" /\ P_mm = 80 /\ base_CN = 85 /\ slope_note = "Moderate"
  /\ vetiver_on /\ vetiver_CN_delta = 4 /\ ~pp_on
  /\ REq(CN_effective, RInt(81))
  /\ RLt(baseline_runoff_m3, BaselineWithoutVetiver)

\* C7: the protection score is within [0, 100].
C7_ScoreWithinBounds == Done => Between(R0, score, RInt(100))

C7_Witness ==
  /\ Done /\ AllMeasuresOn /\ n_beds = MaxBeds /\ REq(pp_fraction_of_catch, RInt(1))
  /\ IsZero(baseline_runoff_m3) /\ Positive(roof_overflow_m3)
  /\ Between(R0, score, RInt(100))

HarvestScenario ==
  /\ P_mm = 80 /\ REq(roof_area_m2, RInt(400)) /\ REq(storage_per_unit_L, RInt(1000))
  /\ n_units = 10 /\ first_flush_mm = 2

\* total tank capacity in m3: unit volume in L x unit count / 1000
TankCapacity_m3 == RDiv(RMul(storage_per_unit_L, RInt(n_units)), RInt(1000))

\* C8: with harvesting enabled captured = min(yield, capacity) <= capacity and
\* overflow = yield - captured; when yield > capacity, captured = capacity and
\* overflow = yield - capacity (roof 400 m2, 10 x 1000 L, first flush 2 mm, P = 80 mm:
\* yield 31.2, captured 10, overflow 21.2 m3).
C8_CapturedIsMinOfYieldAndCapacity ==
  (Done /\ harv_on) =>
    /\ REq(captured_roof_m3, RMin(roof_yield_m3, TankCapacity_m3))
    /\ RLeq(captured_roof_m3, TankCapacity_m3)
    /\ REq(roof_overflow_m3, RSub(roof_yield_m3, captured_roof_m3))
    /\ RLt(TankCapacity_m3, roof_yield_m3) =>
         /\ REq(captured_roof_m3, TankCapacity_m3)
         /\ REq(roof_overflow_m3, RSub(roof_yield_m3, TankCapacity_m3))
    /\ HarvestScenario =>
         /\ REq(roof_yield_m3, RDec(312, 1))
         /\ REq(captured_roof_m3, RInt(10))
         /\ REq(roof_overflow_m3, RDec(212, 1))

CombinerR1 ==
  RAdd(RMax(R0, RSub(RSub(baseline_runoff_m3, hugel_intercepted_m3),
                     vetiver_extra_infiltration_m3)),
       hugel_overflow_m3)
CombinerR2 == RMax(R0, RSub(CombinerR1, pp_direct_infiltration_m3))

\* C9: effective runoff = R2 + roofOverflow with R1 = max(0, baseline - intercepted
\* - hedgerowExtra) + moundOverflow and R2 = max(0, R1 - pavementInfiltration); so
\* effective runoff >= roofOverflow, and pavement infiltration above R1 gives R2 = 0.
C9_CombinerOrder ==
  Done =>
    /\ REq(effective_runoff_m3, RAdd(CombinerR2, roof_overflow_m3))
    /\ RLeq(roof_overflow_m3, effective_runoff_m3)
    /\ RLt(CombinerR1, pp_direct_infiltration_m3) =>
         IsZero(CombinerR2) /\ REq(effective_runoff_m3, roof_overflow_m3)

C9_Witness ==
  /\ Done /\ Positive(CombinerR1) /\ RLt(CombinerR1, pp_direct_infiltration_m3)
  /\ Positive(roof_overflow_m3) /\ REq(effective_runoff_m3, roof_overflow_m3)

\* C10: effective runoff never exceeds baseline runoff plus rooftop overflow.
C10_WaterConserved ==
  Done => RLeq(effective_runoff_m3, RAdd(baseline_runoff_m3, roof_overflow_m3))
====
